---- MODULE Spec2Model ----
(***************************************************************************)
(* A model of src/screens/SudokuScreen.tsx: the puzzle loader              *)
(* (generatePuzzle with its isValid / findBestCell / solve helpers) and    *)
(* the SudokuScreen component seen as an event-driven state machine: the   *)
(* React state (status, difficulty, board, solution, selectedCell, timer,  *)
(* errors) plus the queue of setTimeout(..., 0) callbacks that have been   *)
(* scheduled and have not run yet.  A callback keeps the values of the     *)
(* render in which it was created (its closure), so each queue entry       *)
(* carries them.                                                           *)
(***************************************************************************)
EXTENDS Integers, Sequences, FiniteSets, TLC

\* ------------------------------------------------------------------------
\* Types and fixed data
\* ------------------------------------------------------------------------

\* type Difficulty (line 3)
Difficulty == {"easy", "medium", "hard"}

\* row and column indices of a 9x9 grid
Idx == 0 .. 8

\* const PUZZLES (lines 19-23); a string is the sequence of its characters,
\* baseString[i] is PUZZLES[d][i + 1]
PUZZLES ==
  [easy |->
    << ".", ".", "3", ".", "2", ".", "6", ".", ".",
       "9", ".", ".", "3", ".", "5", ".", ".", "1",
       ".", ".", "1", "8", ".", "6", "4", ".", ".",
       ".", ".", "8", "1", ".", "2", "9", ".", ".",
       "7", ".", ".", ".", ".", ".", ".", ".", "8",
       ".", ".", "6", "7", ".", "8", "2", ".", ".",
       ".", ".", "2", "6", ".", "9", "5", ".", ".",
       "8", ".", ".", "2", ".", "3", ".", ".", "9",
       ".", ".", "5", ".", "1", ".", "3", ".", "." >>,
   medium |->
    << "2", ".", ".", ".", "8", ".", "3", ".", ".",
       ".", "6", ".", ".", "7", ".", ".", "8", "4",
       ".", "3", ".", "5", ".", ".", "2", ".", "9",
       ".", ".", ".", "1", ".", "5", "4", ".", "8",
       ".", ".", ".", ".", ".", ".", ".", ".", ".",
       "4", ".", "2", "7", ".", "6", ".", ".", ".",
       "3", ".", "1", ".", ".", "7", ".", "4", ".",
       "7", "2", ".", ".", "4", ".", ".", "6", ".",
       ".", ".", "4", ".", "1", ".", ".", ".", "3" >>,
   hard |->
    << "8", "5", ".", ".", ".", "2", "4", ".", ".",
       "7", "2", ".", ".", ".", ".", ".", ".", "9",
       ".", ".", "4", ".", ".", ".", ".", ".", ".",
       ".", ".", ".", "1", ".", "7", ".", ".", "2",
       "3", ".", "5", ".", ".", ".", "9", ".", ".",
       ".", "4", ".", ".", ".", ".", ".", ".", ".",
       ".", ".", ".", ".", "8", ".", ".", "7", ".",
       ".", "1", "7", ".", ".", ".", ".", ".", ".",
       ".", ".", ".", ".", "3", "6", ".", "4", "." >>]

\* the NaN that parseInt returns for a string that starts with no digit
NaN == -1

\* parseInt on a one-character string (lines 87, 101, 230, 231)
parseInt(char) ==
  CASE char = "0" -> 0
    [] char = "1" -> 1 [] char = "2" -> 2 [] char = "3" -> 3
    [] char = "4" -> 4 [] char = "5" -> 5 [] char = "6" -> 6
    [] char = "7" -> 7 [] char = "8" -> 8 [] char = "9" -> 9
    [] OTHER -> NaN

\* ------------------------------------------------------------------------
\* generatePuzzle and its helpers (lines 25-107)
\* ------------------------------------------------------------------------

\* the values isValid compares num with (lines 31-41): those of the nine
\* cells of the row, the nine of the column and the nine of the 3x3 box of
\* (row, col)
seenValues(board, row, col) ==
  LET boxRowStart == 3 * (row \div 3)
      boxColStart == 3 * (col \div 3)
  IN {board[row][i] : i \in Idx} \cup {board[i][col] : i \in Idx}
       \cup {board[boxRowStart + i][boxColStart + j] : i \in 0 .. 2, j \in 0 .. 2}

\* isValid without the loop over the box (lines 36-41)
isValidNoBox(board, row, col, num) ==
  num \notin {board[row][i] : i \in Idx} \cup {board[i][col] : i \in Idx}

\* isValid (lines 30-43): false as soon as one of those cells holds num
isValid(board, row, col, num) == num \notin seenValues(board, row, col)

\* the inner loop of findBestCell (lines 53-56): the number of n in 1..9
\* with isValid(board, r, c, n); the cells compared with are the same for
\* every n and are collected once
countPossibilities(board, r, c) ==
  LET seen == seenValues(board, r, c)
  IN Cardinality({n \in 1 .. 9 : n \notin seen})

\* the loop over c of findBestCell with <= for the < of line 57: on ties
\* the last cell of the scan wins.  The first conjunct holds always.
RECURSIVE scanRowLast(_, _, _, _)
scanRowLast(board, r, c, best) ==
  IF c > 8 THEN best
  ELSE IF /\ best.minPossibilities >= 0
          /\ board[r][c] = 0
          /\ countPossibilities(board, r, c) <= best.minPossibilities
       THEN scanRowLast(board, r, c + 1,
              [bestRow |-> r, bestCol |-> c,
               minPossibilities |-> countPossibilities(board, r, c)])
       ELSE scanRowLast(board, r, c + 1, best)

\* the loop over c of findBestCell (lines 51-63) from column c on; best
\* carries bestRow, bestCol and minPossibilities.  No count is below 0, so
\* the test of line 57 fails once minPossibilities is 0: the first conjunct
\* only spares the counting then.
RECURSIVE scanRow(_, _, _, _)
scanRow(board, r, c, best) ==
  IF c > 8 THEN best
  ELSE IF /\ best.minPossibilities > 0
          /\ board[r][c] = 0
          /\ countPossibilities(board, r, c) < best.minPossibilities
       THEN scanRow(board, r, c + 1,
              [bestRow |-> r, bestCol |-> c,
               minPossibilities |-> countPossibilities(board, r, c)])
       ELSE scanRow(board, r, c + 1, best)

\* the loop over r of findBestCell (line 50) from row r on; the result of
\* a row is computed once, as rowBest, before the next row is scanned
RECURSIVE scanRows(_, _, _)
scanRows(board, r, best) ==
  IF r > 8 THEN best
  ELSE CHOOSE result \in {scanRows(board, r + 1, rowBest) :
                            rowBest \in {scanRow(board, r, 0, best)}} : TRUE

\* findBestCell (lines 45-66); bestRow = -1 stands for the null result
findBestCell(board) ==
  scanRows(board, 0, [bestRow |-> -1, bestCol |-> -1, minPossibilities |-> 10])

\* solve (lines 68-81) is recursive and mutates the grid in place.  It is
\* modelled by its call stack: a solver state holds the grid, one frame
\* [r, c, n] per active call that has reached its for loop (cell [r, c] of
\* line 72, loop variable n of line 73), the point of control of the
\* innermost call, and the value the last finished call returned.
\*   "call"    a call of solve starts (line 69)
\*   "loop"    the innermost call is at the head of its for loop (line 73)
\*   "return"  a call has just returned ret to its caller
\*   "done"    the call of line 90 has returned ret
initSolver(grid) ==
  [board |-> grid, stack |-> <<>>, pc |-> "call", ret |-> FALSE]

\* the frame of the innermost active call
topFrame(s) == s.stack[Len(s.stack)]

\* lines 69-72: findBestCell, called once (const cell), and either return
\* true or enter the loop
solveCall(s) ==
  CHOOSE result \in
    {IF cell.bestRow = -1
     THEN [s EXCEPT !.pc = "return", !.ret = TRUE]
     ELSE [s EXCEPT !.pc = "loop",
                    !.stack = Append(@, [r |-> cell.bestRow,
                                         c |-> cell.bestCol, n |-> 1])] :
       cell \in {findBestCell(s.board)}} : TRUE

\* the head of a for loop that runs n from 1 to 8
solveLoopTo8(s) ==
  LET f == topFrame(s)
  IN IF f.n > 8
     THEN [s EXCEPT !.pc = "return", !.ret = FALSE,
                    !.stack = SubSeq(@, 1, Len(@) - 1)]
     ELSE IF isValid(s.board, f.r, f.c, f.n)
          THEN [s EXCEPT !.pc = "call", !.board[f.r][f.c] = f.n]
          ELSE [s EXCEPT !.stack[Len(s.stack)].n = f.n + 1]

\* lines 73-76 and 80: one pass through the head of the for loop
solveLoop(s) ==
  LET f == topFrame(s)
  IN IF f.n > 9
     THEN [s EXCEPT !.pc = "return", !.ret = FALSE,
                    !.stack = SubSeq(@, 1, Len(@) - 1)]
     ELSE IF isValid(s.board, f.r, f.c, f.n)
          THEN [s EXCEPT !.pc = "call", !.board[f.r][f.c] = f.n]
          ELSE [s EXCEPT !.stack[Len(s.stack)].n = f.n + 1]

\* the caller once the recursive call has returned, without line 77
solveReturnKeep(s) ==
  IF s.stack = <<>> THEN [s EXCEPT !.pc = "done"]
  ELSE LET f == topFrame(s)
       IN IF s.ret
          THEN [s EXCEPT !.stack = SubSeq(@, 1, Len(@) - 1)]
          ELSE [s EXCEPT !.pc = "loop",
                         !.stack[Len(s.stack)].n = f.n + 1]

\* lines 76-77 in the caller once the recursive call has returned (and
\* line 90 when there is no caller)
solveReturn(s) ==
  IF s.stack = <<>> THEN [s EXCEPT !.pc = "done"]
  ELSE LET f == topFrame(s)
       IN IF s.ret
          THEN [s EXCEPT !.stack = SubSeq(@, 1, Len(@) - 1)]
          ELSE [s EXCEPT !.pc = "loop", !.board[f.r][f.c] = 0,
                         !.stack[Len(s.stack)].n = f.n + 1]

\* one step of solve
solveStep(s) ==
  CASE s.pc = "call" -> solveCall(s)
    [] s.pc = "loop" -> solveLoop(s)
    [] s.pc = "return" -> solveReturn(s)
    [] s.pc = "done" -> s

\* the solver state after at most 2^k steps from s, or the "done" state if
\* it comes earlier
RECURSIVE runSteps(_, _)
runSteps(s, k) ==
  IF s.pc = "done" THEN s
  ELSE IF k = 0 THEN solveStep(s)
  ELSE runSteps(runSteps(s, k - 1), k - 1)

\* solve is run for at most 2^RunDepth steps; each of the three puzzles of
\* PUZZLES takes fewer
RunDepth == 17

\* solve(grid) as called at line 90: the solver run from its first step
solve(grid) == runSteps(initSolver(grid), RunDepth)

\* a cell of the board (type Cell, lines 5-9); value 0 stands for null
EmptyCell == [value |-> 0, isGiven |-> FALSE, isInvalid |-> FALSE]

\* an array of length 9 with the given elements at indices 0..8
\* (Array.from({ length: 9 }, ...), lines 27-28)
Array9(a0, a1, a2, a3, a4, a5, a6, a7, a8) ==
  (0 :> a0) @@ (1 :> a1) @@ (2 :> a2) @@ (3 :> a3) @@ (4 :> a4)
    @@ (5 :> a5) @@ (6 :> a6) @@ (7 :> a7) @@ (8 :> a8)

\* a 9x9 array whose element at [row][col] is f[row * 9 + col]
Grid9(f) ==
  LET rowOf(r) == Array9(f[r * 9], f[r * 9 + 1], f[r * 9 + 2], f[r * 9 + 3],
                         f[r * 9 + 4], f[r * 9 + 5], f[r * 9 + 6],
                         f[r * 9 + 7], f[r * 9 + 8])
  IN Array9(rowOf(0), rowOf(1), rowOf(2), rowOf(3), rowOf(4), rowOf(5),
            rowOf(6), rowOf(7), rowOf(8))

\* the numeric grid parsed from a puzzle definition (lines 83-88)
parseGrid(baseString) ==
  Grid9([i \in 0 .. 80 |->
     LET char == baseString[i + 1]
     IN IF char = "." THEN 0 ELSE parseInt(char)])

\* the board of given cells parsed from a puzzle definition (lines 27, 96-104)
parseBoard(baseString) ==
  Grid9([i \in 0 .. 80 |->
     LET char == baseString[i + 1]
     IN IF char # "."
        THEN [value |-> parseInt(char), isGiven |-> TRUE, isInvalid |-> FALSE]
        ELSE EmptyCell])

\* generatePuzzle (lines 25-107); threw = TRUE stands for the Error of line 93
generatePuzzleFrom(baseString) ==
  LET res == solve(parseGrid(baseString))
  IN IF ~res.ret
     THEN [threw |-> TRUE, puzzle |-> <<>>, solution |-> res.board]
     ELSE [threw |-> FALSE, puzzle |-> parseBoard(baseString),
           solution |-> res.board]

generatePuzzle(difficulty) == generatePuzzleFrom(PUZZLES[difficulty])

\* what generatePuzzle returns for each of the three difficulties
Generated ==
  [easy |-> generatePuzzle("easy"), medium |-> generatePuzzle("medium"),
   hard |-> generatePuzzle("hard")]

\* ------------------------------------------------------------------------
\* The SudokuScreen component (lines 109-433)
\* ------------------------------------------------------------------------

\* type GameStatus (line 4)
GameStatus == {"menu", "playing", "solved"}

\* null for board and solution (lines 112-113), for selectedCell (line 114)
\* and for the num of handleNumberInput (line 157)
NullBoard == <<>>
NullCell == [row |-> -1, col |-> -1]
NullNum == 0

\* type Position (line 11)
Pos(r, c) == [row |-> r, col |-> c]

VARIABLES
  status,        \* useState<GameStatus> (line 110)
  difficulty,    \* useState<Difficulty> (line 111)
  board,         \* useState<Board | null> (line 112)
  solution,      \* useState<number[][] | null> (line 113)
  selectedCell,  \* useState<Position | null> (line 114)
  timer,         \* useState(0) (line 115)
  errors,        \* useState(0) (line 116)
  pending,       \* the setTimeout(..., 0) callbacks not run yet, oldest first
  generated,     \* what generatePuzzle returns for each difficulty
  loading,       \* the difficulty of a generatePuzzle call that is stepped
  solver,        \* the solver state of that call
  logged,        \* the lines console.error has written (lines 92, 130)
  solver2,       \* the solver state of a second call on the same definition
  lead,          \* the steps the first call is ahead of the second
  input          \* the grid the stepped call of solve received (line 90)

vars == <<status, difficulty, board, solution, selectedCell, timer, errors,
          pending, generated, loading, solver, logged, solver2, lead, input>>

\* generatePuzzle is a pure function of the difficulty: its three results
\* are computed once, in Init, and no handler changes them
twinVars == <<solver2, lead>>

loaderVars == <<generated, loading, solver, logged, twinVars, input>>

sessionVars == <<status, difficulty, board, solution, selectedCell, timer,
                 errors, pending>>

\* ---- bounds of the exploration ----

\* the seconds the interval timer is followed for
MaxTimer == 1
\* the errors counted
MaxErrors == 2
\* the setTimeout callbacks waiting at one time
MaxPending == 1
\* the lines of console.error followed
MaxLogged == 2
\* the steps one of two calls of generatePuzzle runs ahead of the other
MaxLead == 1
\* the digits the user enters
Digits == {4, 9}
\* the cells the user clicks
ClickCells == {Pos(0, 0), Pos(0, 8), Pos(4, 4), Pos(8, 0), Pos(8, 8)}
\* the cells the user enters digits into or erases
EditCells == {Pos(0, 0), Pos(8, 7)}

\* ---- helpers of the handlers ----

\* the least element of a non-empty set of numbers
Least(S) == CHOOSE m \in S : \A k \in S : m <= k

\* board.flat().findIndex(c => c.value === null && !c.isGiven)
\* (lines 161, 387): -1 when there is none
firstEmptyIndex(b) ==
  LET empties == {i \in 0 .. 80 :
                    /\ b[i \div 9][i % 9].value = 0
                    /\ ~b[i \div 9][i % 9].isGiven}
  IN IF empties = {} THEN -1 ELSE Least(empties)

\* checkWin (lines 146-155), with the solution of its closure
checkWin(currentBoard, sol) ==
  \A r \in Idx : \A c \in Idx :
    ~(currentBoard[r][c].value = 0 \/ currentBoard[r][c].value # sol[r][c])

\* the values a render gives to the callbacks it creates (the dependencies
\* of handleNumberInput, line 213)
Render == [status |-> status, board |-> board, solution |-> solution,
           selectedCell |-> selectedCell]

\* the callback of line 390: handleNumberInput of render env, called with num
InputCallback(env, num) ==
  [kind |-> "input", env |-> env, num |-> num, row |-> -1, col |-> -1]

\* the callback of lines 166-180, created by handleNumberInput of render env
WriteCallback(env, row, col, num) ==
  [kind |-> "write", env |-> env, num |-> num, row |-> row, col |-> col]

\* the write of lines 188-211 with an erase that takes back the error of
\* an invalid cell
DirectWriteUncount(env, row, col, num) ==
  LET wasInvalid == env.board[row][col].isInvalid
      wrong == env.solution # NullBoard /\ env.solution[row][col] # num
      newBoard ==
        IF num = NullNum
        THEN [env.board EXCEPT ![row][col].value = 0,
                               ![row][col].isInvalid = FALSE]
        ELSE [env.board EXCEPT ![row][col].value = num,
                               ![row][col].isInvalid = wrong]
  IN /\ board' = newBoard
     /\ errors' = IF num # NullNum /\ wrong /\ ~wasInvalid THEN errors + 1
                  ELSE IF num = NullNum /\ wasInvalid THEN errors - 1
                  ELSE errors
     /\ status' = IF checkWin(newBoard, env.solution) THEN "solved" ELSE status

\* the write of lines 188-211 with an erase that forgets line 193
DirectWriteKeepInvalid(env, row, col, num) ==
  LET wasInvalid == env.board[row][col].isInvalid
      wrong == env.solution # NullBoard /\ env.solution[row][col] # num
      newBoard ==
        IF num = NullNum
        THEN [env.board EXCEPT ![row][col].value = 0]
        ELSE [env.board EXCEPT ![row][col].value = num,
                               ![row][col].isInvalid = wrong]
  IN /\ board' = newBoard
     /\ errors' = IF num # NullNum /\ wrong /\ ~wasInvalid
                  THEN errors + 1 ELSE errors
     /\ status' = IF checkWin(newBoard, env.solution) THEN "solved" ELSE status

\* lines 188-211: the write to cell [row][col] of a copy of env.board
DirectWrite(env, row, col, num) ==
  LET wasInvalid == env.board[row][col].isInvalid
      wrong == env.solution # NullBoard /\ env.solution[row][col] # num
      newBoard ==
        IF num = NullNum
        THEN [env.board EXCEPT ![row][col].value = 0,
                               ![row][col].isInvalid = FALSE]
        ELSE [env.board EXCEPT ![row][col].value = num,
                               ![row][col].isInvalid = wrong]
  IN /\ board' = newBoard
     /\ errors' = IF num # NullNum /\ wrong /\ ~wasInvalid
                  THEN errors + 1 ELSE errors
     /\ status' = IF checkWin(newBoard, env.solution) THEN "solved" ELSE status

\* handleNumberInput (lines 157-213) of render env, called with num while
\* the callbacks in queue are waiting
handleNumberInput(env, num, queue) ==
  IF env.status # "playing" \/ env.board = NullBoard
  THEN /\ pending' = queue
       /\ UNCHANGED <<status, board, selectedCell, errors>>
  ELSE IF env.selectedCell = NullCell
  THEN LET firstEmpty == firstEmptyIndex(env.board)
           row == firstEmpty \div 9
           col == firstEmpty % 9
       IN IF firstEmpty >= 0 /\ num # NullNum
          THEN /\ selectedCell' = Pos(row, col)
               /\ pending' = Append(queue, WriteCallback(env, row, col, num))
               /\ UNCHANGED <<status, board, errors>>
          ELSE /\ pending' = queue
               /\ UNCHANGED <<status, board, selectedCell, errors>>
  ELSE LET row == env.selectedCell.row
           col == env.selectedCell.col
       IN IF env.board[row][col].isGiven
          THEN /\ pending' = queue
               /\ UNCHANGED <<status, board, selectedCell, errors>>
          ELSE /\ DirectWrite(env, row, col, num)
               /\ pending' = queue
               /\ UNCHANGED selectedCell

\* the callback of lines 166-180 when it runs
deferredWrite(cb) ==
  LET wrong == cb.env.solution # NullBoard
                 /\ cb.env.solution[cb.row][cb.col] # cb.num
      newBoard == [cb.env.board EXCEPT ![cb.row][cb.col].value = cb.num,
                                       ![cb.row][cb.col].isInvalid = wrong]
  IN /\ board' = newBoard
     /\ errors' = IF wrong THEN errors + 1 ELSE errors
     /\ status' = IF checkWin(newBoard, cb.env.solution)
                  THEN "solved" ELSE status

\* ---- the state after construction (lines 110-117) ----

\* a call generatePuzzle(diff) that has parsed the grid (lines 83-88) and
\* is about to call solve (line 90)
LoadCall(diff) ==
  /\ generated = Generated
  /\ loading = diff
  /\ solver = initSolver(parseGrid(PUZZLES[diff]))
  /\ logged = 0
  /\ solver2 = initSolver(parseGrid(PUZZLES[diff]))
  /\ lead = 0
  /\ input = parseGrid(PUZZLES[diff])

Init ==
  /\ status = "menu"
  /\ difficulty = "medium"
  /\ board = NullBoard
  /\ solution = NullBoard
  /\ selectedCell = NullCell
  /\ timer = 0
  /\ errors = 0
  /\ pending = <<>>
  /\ LoadCall("medium")

\* ---- the handlers ----

\* startGame with a catch block that also clears the session
StartGameClearOnFailure ==
  LET result == generated[difficulty]
  IN /\ board' = IF result.threw THEN NullBoard ELSE result.puzzle
     /\ solution' = IF result.threw THEN NullBoard ELSE result.solution
     /\ selectedCell' = NullCell
     /\ errors' = 0
     /\ timer' = 0
     /\ status' = IF result.threw THEN "menu" ELSE "playing"
     /\ logged' = IF result.threw THEN logged + 2 ELSE logged
     /\ UNCHANGED <<difficulty, pending, generated, loading, solver, twinVars, input>>

\* startGame (lines 119-133), called with the difficulty of the render by
\* the buttons of lines 348, 366 and 416
StartGame ==
  LET result == generated[difficulty]
  IN /\ IF ~result.threw
        THEN /\ difficulty' = difficulty
             /\ board' = result.puzzle
             /\ solution' = result.solution
             /\ selectedCell' = NullCell
             /\ errors' = 0
             /\ timer' = 0
             /\ status' = "playing"
             /\ logged' = logged
        ELSE /\ status' = "menu"
             /\ logged' = logged + 2
             /\ UNCHANGED <<difficulty, board, solution, selectedCell,
                            errors, timer>>
     /\ UNCHANGED <<pending, generated, loading, solver, twinVars, input>>

\* the select of lines 316-321, rendered while status is menu
SetDifficulty(newDiff) ==
  /\ status = "menu"
  /\ difficulty' = newDiff
  /\ UNCHANGED <<status, board, solution, selectedCell, timer, errors,
                 pending, loaderVars>>

\* the Change Difficulty buttons (lines 369, 422), rendered unless in menu
ReturnToMenu ==
  /\ status # "menu"
  /\ status' = "menu"
  /\ UNCHANGED <<difficulty, board, solution, selectedCell, timer, errors,
                 pending, loaderVars>>

\* the click on a cell (line 282); the board is rendered unless in menu
SelectCell(pos) ==
  /\ status # "menu"
  /\ board # NullBoard
  /\ selectedCell' = pos
  /\ UNCHANGED <<status, difficulty, board, solution, timer, errors,
                 pending, loaderVars>>

\* handleKeyDown for an arrow key without Math.max and Math.min
ArrowKeyNoClamp(key) ==
  /\ IF status # "playing" \/ selectedCell = NullCell
     THEN UNCHANGED selectedCell
     ELSE LET row == selectedCell.row
              col == selectedCell.col
          IN selectedCell' =
               CASE key = "ArrowUp" -> Pos(row - 1, col)
                 [] key = "ArrowDown" -> Pos(row + 1, col)
                 [] key = "ArrowLeft" -> Pos(row, col - 1)
                 [] key = "ArrowRight" -> Pos(row, col + 1)
  /\ UNCHANGED <<status, difficulty, board, solution, timer, errors,
                 pending, loaderVars>>

\* handleKeyDown (lines 215-237) for an arrow key
ArrowKey(key) ==
  /\ IF status # "playing" \/ selectedCell = NullCell
     THEN UNCHANGED selectedCell
     ELSE LET row == selectedCell.row
              col == selectedCell.col
          IN selectedCell' =
               CASE key = "ArrowUp" -> Pos(IF row - 1 > 0 THEN row - 1 ELSE 0, col)
                 [] key = "ArrowDown" -> Pos(IF row + 1 < 8 THEN row + 1 ELSE 8, col)
                 [] key = "ArrowLeft" -> Pos(row, IF col - 1 > 0 THEN col - 1 ELSE 0)
                 [] key = "ArrowRight" -> Pos(row, IF col + 1 < 8 THEN col + 1 ELSE 8)
  /\ UNCHANGED <<status, difficulty, board, solution, timer, errors,
                 pending, loaderVars>>

\* handleKeyDown (lines 215-237) for Backspace, Delete and the other keys
\* (the default branch, lines 229-233)
InputKey(key) ==
  /\ IF status # "playing" \/ selectedCell = NullCell
     THEN UNCHANGED <<status, board, selectedCell, errors, pending>>
     ELSE IF key \in {"Backspace", "Delete"}
     THEN handleNumberInput(Render, NullNum, pending)
     ELSE IF parseInt(key) # NaN /\ key # "0"
     THEN handleNumberInput(Render, parseInt(key), pending)
     ELSE UNCHANGED <<status, board, selectedCell, errors, pending>>
  /\ UNCHANGED <<difficulty, solution, timer, loaderVars>>

\* a button of the number pad (lines 383-400), disabled unless playing
PadClick(digit) ==
  /\ status = "playing"
  /\ IF selectedCell = NullCell
     THEN LET firstEmpty == firstEmptyIndex(board)
          IN IF firstEmpty >= 0
             THEN /\ selectedCell' = Pos(firstEmpty \div 9, firstEmpty % 9)
                  /\ pending' = Append(pending, InputCallback(Render, digit))
                  /\ UNCHANGED <<status, board, errors>>
             ELSE UNCHANGED <<status, board, selectedCell, errors, pending>>
     ELSE handleNumberInput(Render, digit, pending)
  /\ UNCHANGED <<difficulty, solution, timer, loaderVars>>

\* the Erase button (lines 403-411), disabled unless playing with a selection
EraseClick ==
  /\ status = "playing"
  /\ selectedCell # NullCell
  /\ handleNumberInput(Render, NullNum, pending)
  /\ UNCHANGED <<difficulty, solution, timer, loaderVars>>

\* the interval callback of an interval that is never cleared
TickAnyStatus ==
  /\ timer' = timer + 1
  /\ UNCHANGED <<status, difficulty, board, solution, selectedCell, errors,
                 pending, loaderVars>>

\* the interval callback of line 137; the interval exists while status is
\* playing (lines 135-144)
Tick ==
  /\ status = "playing"
  /\ timer' = timer + 1
  /\ UNCHANGED <<status, difficulty, board, solution, selectedCell, errors,
                 pending, loaderVars>>

\* the oldest waiting setTimeout callback runs
RunTimeout ==
  /\ pending # <<>>
  /\ LET cb == Head(pending)
     IN IF cb.kind = "input"
        THEN handleNumberInput(cb.env, cb.num, Tail(pending))
        ELSE /\ deferredWrite(cb)
             /\ pending' = Tail(pending)
             /\ UNCHANGED selectedCell
  /\ UNCHANGED <<difficulty, solution, timer, loaderVars>>

\* ---- the events of a session ----

ArrowKeys == {"ArrowUp", "ArrowDown", "ArrowLeft", "ArrowRight"}

\* the keys of Digits
DigitKeys == {"4", "9"}

\* the other keys the user presses: the keys of Digits, the erasing keys,
\* "0" and a letter
InputKeys == DigitKeys \cup {"Backspace", "Delete", "0", "a"}

\* the user edits the cells of EditCells only, and stops entering digits
\* once MaxErrors errors are counted
EditHere == selectedCell \in EditCells /\ errors < MaxErrors

\* the user clicks the number pad without a selection only when the first
\* empty cell is a cell of EditCells, and while fewer than MaxPending
\* callbacks wait
PadHere ==
  /\ board # NullBoard
  /\ LET firstEmpty == firstEmptyIndex(board)
     IN firstEmpty >= 0 => Pos(firstEmpty \div 9, firstEmpty % 9) \in EditCells
  /\ Len(pending) < MaxPending
  /\ errors < MaxErrors

\* the user presses an arrow key while a cell of ClickCells is selected, or
\* none
ArrowHere == selectedCell \in ClickCells \cup {NullCell}

Next ==
  \/ (generated[difficulty].threw => logged < MaxLogged) /\ StartGame
  \/ \E newDiff \in Difficulty : SetDifficulty(newDiff)
  \/ ReturnToMenu
  \/ \E pos \in ClickCells : SelectCell(pos)
  \/ \E key \in ArrowKeys : ArrowHere /\ ArrowKey(key)
  \/ \E key \in InputKeys : (selectedCell = NullCell \/ EditHere) /\ InputKey(key)
  \/ \E digit \in Digits :
       (IF selectedCell = NullCell THEN PadHere ELSE EditHere) /\ PadClick(digit)
  \/ EditHere /\ EraseClick
  \/ timer < MaxTimer /\ Tick
  \/ RunTimeout

Spec == Init /\ [][Next]_vars

\* ---- a session one cell from its end ----

\* the board of difficulty diff with every cell but [row][col] holding the
\* value of the solution
AllBut(diff, row, col) ==
  [r \in Idx |-> [c \in Idx |->
     IF generated[diff].puzzle[r][c].isGiven \/ (r = row /\ c = col)
     THEN generated[diff].puzzle[r][c]
     ELSE [value |-> generated[diff].solution[r][c], isGiven |-> FALSE,
           isInvalid |-> FALSE]]]

\* the medium session with cell [8][7], its last empty cell in row-major
\* order, left to fill and no cell selected. The state is reachable from
\* Init: a number pad click without a selection, the run of its callback,
\* startGame and the run of the write callback leave the board with its
\* first empty cell filled and no selection, and the errors and the timer
\* at 0; repeated once for each empty cell but the last, it ends here.
InitEndgame ==
  /\ LoadCall("medium")
  /\ status = "playing"
  /\ difficulty = "medium"
  /\ board = AllBut("medium", 8, 7)
  /\ solution = generated["medium"].solution
  /\ selectedCell = NullCell
  /\ timer = 0
  /\ errors = 0
  /\ pending = <<>>

SpecEndgame == InitEndgame /\ [][Next]_vars

\* ---- a session played with the number pad only ----

\* the cells the user has filled on the board that is rendered
MaxFilled == 2

\* the user clicks the number pad while fewer than MaxFilled cells are
\* filled, fewer than MaxPending callbacks wait and fewer than MaxErrors
\* errors are counted
PadOpen ==
  /\ board # NullBoard
  /\ Cardinality({pos \in {Pos(r, c) : r \in Idx, c \in Idx} :
                    /\ ~board[pos.row][pos.col].isGiven
                    /\ board[pos.row][pos.col].value # 0}) < MaxFilled
  /\ Len(pending) < MaxPending
  /\ errors < MaxErrors

NextPad ==
  \/ StartGame
  \/ \E newDiff \in Difficulty : SetDifficulty(newDiff)
  \/ ReturnToMenu
  \/ \E digit \in Digits : PadOpen /\ PadClick(digit)
  \/ RunTimeout

SpecPad == Init /\ [][NextPad]_vars

\* ---- a definition the solver fails on ----

\* a definition without a conflict and without a solution: cell [0][8] has
\* no candidate, 1..8 are in its row and 9 is in its column
Unsolvable ==
  << "1", "2", "3", "4", "5", "6", "7", "8", ".",
     ".", ".", ".", ".", ".", ".", ".", ".", "9",
     ".", ".", ".", ".", ".", ".", ".", ".", ".",
     ".", ".", ".", ".", ".", ".", ".", ".", ".",
     ".", ".", ".", ".", ".", ".", ".", ".", ".",
     ".", ".", ".", ".", ".", ".", ".", ".", ".",
     ".", ".", ".", ".", ".", ".", ".", ".", ".",
     ".", ".", ".", ".", ".", ".", ".", ".", ".",
     ".", ".", ".", ".", ".", ".", ".", ".", "." >>

\* the component at construction when the definition of hard is Unsolvable:
\* generatePuzzle throws for hard in line 93
InitFailure ==
  /\ generated = [Generated EXCEPT !.hard = generatePuzzleFrom(Unsolvable)]
  /\ loading = "hard"
  /\ solver = initSolver(parseGrid(Unsolvable))
  /\ logged = 0
  /\ solver2 = initSolver(parseGrid(Unsolvable))
  /\ lead = 0
  /\ input = parseGrid(Unsolvable)
  /\ status = "menu"
  /\ difficulty = "medium"
  /\ board = NullBoard
  /\ solution = NullBoard
  /\ selectedCell = NullCell
  /\ timer = 0
  /\ errors = 0
  /\ pending = <<>>

SpecFailure == InitFailure /\ [][Next]_vars

\* ---- a call of generatePuzzle, followed step by step ----

InitLoad ==
  /\ \E diff \in Difficulty : LoadCall(diff)
  /\ status = "menu"
  /\ difficulty = "medium"
  /\ board = NullBoard
  /\ solution = NullBoard
  /\ selectedCell = NullCell
  /\ timer = 0
  /\ errors = 0
  /\ pending = <<>>

\* one step of solve (lines 68-81)
SolveStep ==
  /\ solver.pc # "done"
  /\ solver' = solveStep(solver)
  /\ UNCHANGED <<sessionVars, generated, loading, logged, twinVars, input>>

NextLoad == SolveStep

SpecLoad == InitLoad /\ [][NextLoad]_vars

\* ---- solve on the grids of a bounded family ----

\* a complete grid, written as a definition: the one completion of easy
Complete ==
  << "4", "8", "3", "9", "2", "1", "6", "5", "7",
     "9", "6", "7", "3", "4", "5", "8", "2", "1",
     "2", "5", "1", "8", "7", "6", "4", "9", "3",
     "5", "4", "8", "1", "3", "2", "9", "7", "6",
     "7", "2", "9", "5", "6", "4", "1", "3", "8",
     "1", "3", "6", "7", "9", "8", "2", "4", "5",
     "3", "7", "2", "6", "8", "9", "5", "1", "4",
     "8", "1", "4", "2", "5", "3", "7", "6", "9",
     "6", "9", "5", "4", "1", "7", "3", "8", "2" >>

\* the cells of the family that are emptied, and the cell that is altered
Pool ==
  {Pos(0, 3), Pos(1, 6), Pos(1, 8), Pos(2, 1), Pos(3, 6), Pos(3, 8),
   Pos(4, 2), Pos(4, 6), Pos(4, 8)}
AlteredCell == Pos(3, 2)
\* the values the altered cell is given; 0 leaves it as it is
AlteredValues == {0, 9}

\* grid with the cells of blanks set to 0 and, when value is not 0, the
\* altered cell set to value
Derived(grid, blanks, value) ==
  Grid9([i \in 0 .. 80 |->
     LET pos == Pos(i \div 9, i % 9)
     IN IF pos \in blanks THEN 0
        ELSE IF value # 0 /\ pos = AlteredCell THEN value
        ELSE grid[pos.row][pos.col]])

\* another cell of the row, the column or the box of [r][c] holds n
Clashes(grid, r, c, n) ==
  \E r2 \in Idx, c2 \in Idx :
    /\ r2 # r \/ c2 # c
    /\ r2 = r \/ c2 = c \/ (r2 \div 3 = r \div 3 /\ c2 \div 3 = c \div 3)
    /\ grid[r2][c2] = n

\* grid is a partial valid assignment: its cells hold 0..9 and no value
\* of 1..9 twice in a row, a column or a box
PartialValid(grid) ==
  \A r \in Idx, c \in Idx :
    /\ grid[r][c] \in 0 .. 9
    /\ grid[r][c] # 0 => ~Clashes(grid, r, c, grid[r][c])

\* a call of solve (line 90) on the grid of a shipped definition or on a
\* partial valid grid derived from Complete
InitSolve ==
  /\ \E G \in {Generated} :
       /\ generated = G
       /\ \/ \E diff \in Difficulty :
               /\ loading = diff
               /\ input = parseGrid(PUZZLES[diff])
          \/ \E blanks \in SUBSET Pool, value \in AlteredValues :
               /\ blanks # {}
               /\ loading = "easy"
               /\ input = Derived(parseGrid(Complete), blanks, value)
               /\ PartialValid(input)
  /\ solver = initSolver(input)
  /\ solver2 = initSolver(input)
  /\ lead = 0
  /\ logged = 0
  /\ status = "menu"
  /\ difficulty = "medium"
  /\ board = NullBoard
  /\ solution = NullBoard
  /\ selectedCell = NullCell
  /\ timer = 0
  /\ errors = 0
  /\ pending = <<>>

SpecSolve == InitSolve /\ [][NextLoad]_vars

\* solve is run to its return: no call of solve is left half-way
SpecSolveFair == SpecSolve /\ WF_vars(SolveStep)

\* ---- two calls of generatePuzzle on one definition, side by side ----

\* one step of solve in the first call, on the grid of that call (line 28)
TwinStep1 ==
  /\ solver.pc # "done"
  /\ lead < MaxLead
  /\ solver' = solveStep(solver)
  /\ lead' = lead + 1
  /\ UNCHANGED <<sessionVars, generated, loading, logged, solver2, input>>

\* one step of solve in the second call when solutionBoard is one grid
\* that the calls share and not a grid of each call
TwinStep2Shared ==
  /\ solver2.pc # "done"
  /\ lead > -MaxLead
  /\ solver2' = solveStep([solver2 EXCEPT !.board = solver.board])
  /\ solver' = [solver EXCEPT !.board = solver2'.board]
  /\ lead' = lead - 1
  /\ UNCHANGED <<sessionVars, generated, loading, logged, input>>

\* one step of solve in the second call, on the grid of that call
TwinStep2 ==
  /\ solver2.pc # "done"
  /\ lead > -MaxLead
  /\ solver2' = solveStep(solver2)
  /\ lead' = lead - 1
  /\ UNCHANGED <<sessionVars, generated, loading, logged, solver, input>>

NextTwin == TwinStep1 \/ TwinStep2

SpecTwin == InitLoad /\ [][NextTwin]_vars

\* ------------------------------------------------------------------------
\* Properties
\* ------------------------------------------------------------------------

\* every row, every column and every box of grid is exactly {1..9}
ValidSolution(grid) ==
  \A i \in Idx :
    /\ {grid[i][c] : c \in Idx} = 1 .. 9
    /\ {grid[r][i] : r \in Idx} = 1 .. 9
    /\ {grid[3 * (i \div 3) + r][3 * (i % 3) + c] : r \in 0 .. 2, c \in 0 .. 2}
         = 1 .. 9

\* C1: for each of the three puzzle definitions generatePuzzle succeeds:
\* solve returns true, so nothing is thrown, and every row, column and box
\* of the solution is exactly {1..9}. The call followed step by step ends
\* with the result that startGame receives.
C1_LoadSucceeds ==
  /\ \A diff \in Difficulty :
       /\ ~generated[diff].threw
       /\ ValidSolution(generated[diff].solution)
  /\ solver.pc = "done" =>
       /\ solver.ret
       /\ ValidSolution(solver.board)
       /\ generated[loading].solution = solver.board
       /\ generated[loading].puzzle = parseBoard(PUZZLES[loading])

\* a call has returned true with the solution that startGame receives
C1_Loaded ==
  /\ solver.pc = "done"
  /\ solver.ret
  /\ generated[loading].solution = solver.board

\* the difficulty whose solution the session holds
SessionDifficulty == CHOOSE diff \in Difficulty : generated[diff].solution = solution

\* the cell a callback of lines 166-180 writes to is a given cell of the board
DeferredWriteAt(cb) == cb.kind = "write" /\ board[cb.row][cb.col].isGiven

\* C2: within a session every given cell holds the value of the puzzle
\* definition, and a digit or an erase whose target is a given cell changes
\* neither the board nor the errors.
C2_GivenCellsImmutable ==
  /\ [](board # NullBoard =>
          \A r \in Idx : \A c \in Idx :
            generated[SessionDifficulty].puzzle[r][c].isGiven =>
              board[r][c] = generated[SessionDifficulty].puzzle[r][c])
  /\ [][/\ \A key \in InputKeys :
             (/\ status = "playing"
              /\ selectedCell # NullCell
              /\ board[selectedCell.row][selectedCell.col].isGiven
              /\ InputKey(key)) => UNCHANGED <<board, errors>>
        /\ \A digit \in Digits :
             (/\ status = "playing"
              /\ selectedCell # NullCell
              /\ board[selectedCell.row][selectedCell.col].isGiven
              /\ PadClick(digit)) => UNCHANGED <<board, errors>>
        /\ (/\ pending # <<>>
            /\ DeferredWriteAt(Head(pending))
            /\ RunTimeout) => UNCHANGED <<board, errors>>]_vars

\* the errors after the write of num to cell [row][col]: one more when num
\* differs from the solution and the cell was not invalid, the same otherwise
CountsOnce(row, col, num) ==
  errors' = errors + (IF num # solution[row][col] /\ ~board[row][col].isInvalid
                      THEN 1 ELSE 0)

\* C3: a digit written to a cell adds exactly 1 to the errors when it
\* differs from the solution and the cell was not invalid immediately before
\* the write, and nothing otherwise (wrong then wrong adds 1; wrong, erase,
\* wrong adds 2).
C3_NoDoubleCount ==
  [][/\ \A key \in DigitKeys :
          (/\ status = "playing"
           /\ selectedCell # NullCell
           /\ ~board[selectedCell.row][selectedCell.col].isGiven
           /\ InputKey(key))
            => CountsOnce(selectedCell.row, selectedCell.col, parseInt(key))
     /\ \A digit \in Digits :
          (/\ status = "playing"
           /\ selectedCell # NullCell
           /\ ~board[selectedCell.row][selectedCell.col].isGiven
           /\ PadClick(digit))
            => CountsOnce(selectedCell.row, selectedCell.col, digit)
     /\ (/\ pending # <<>>
         /\ Head(pending).kind = "write"
         /\ RunTimeout)
          => CountsOnce(Head(pending).row, Head(pending).col, Head(pending).num)]_vars

\* C4: the status is solved exactly when the board is complete and equal to
\* the solution: a solved session holds the solution, and no playing session
\* holds a board equal to the solution.
C4_WinExact ==
  board # NullBoard =>
    /\ status = "solved" => checkWin(board, solution)
    /\ status = "playing" => ~checkWin(board, solution)

\* C5: every operation applies all of its effects before the next event is
\* accepted: a callback of an operation runs in the state the operation
\* left, no later event having been processed in between.
C5_RunToCompletion ==
  [][(pending # <<>> /\ RunTimeout) =>
       LET cb == Head(pending)
           firstEmpty == firstEmptyIndex(cb.env.board)
       IN /\ cb.env.status = status
          /\ cb.env.board = board
          /\ cb.env.solution = solution
          /\ selectedCell = Pos(firstEmpty \div 9, firstEmpty % 9)]_vars

\* the effect of a digit entered with no selection: the first empty cell in
\* row-major order is selected and holds the digit, its isInvalid and the
\* errors follow the solution, and the win check has run; nothing changes
\* when there is no empty cell
EnteredAtFirstEmpty(num) ==
  LET firstEmpty == firstEmptyIndex(board)
      row == firstEmpty \div 9
      col == firstEmpty % 9
      wrong == num # solution[row][col]
  IN IF firstEmpty < 0
     THEN UNCHANGED <<board, selectedCell, errors, status>>
     ELSE /\ selectedCell' = Pos(row, col)
          /\ board' = [board EXCEPT ![row][col].value = num,
                                    ![row][col].isInvalid = wrong]
          /\ errors' = errors + (IF wrong THEN 1 ELSE 0)
          /\ status' = IF checkWin(board', solution) THEN "solved" ELSE status

\* C6: a digit entered while playing with no cell selected selects the first
\* empty cell and applies the digit to it, from the keyboard as from the
\* number pad.
C6_AutoSelect ==
  (status = "playing" /\ selectedCell = NullCell) =>
    /\ \A key \in DigitKeys :
         ENABLED (InputKey(key) /\ EnteredAtFirstEmpty(parseInt(key)))
    /\ \A digit \in Digits :
         ENABLED (PadClick(digit) /\ EnteredAtFirstEmpty(digit))

\* C7: in every state with a board, a cell is invalid exactly when it is
\* not given, not empty and differs from the solution of the session.
C7_InvalidNeverStale ==
  board # NullBoard =>
    \A r \in Idx : \A c \in Idx :
      board[r][c].isInvalid <=>
        /\ ~board[r][c].isGiven
        /\ board[r][c].value # 0
        /\ board[r][c].value # solution[r][c]

\* C8: startGame leaves the session playing, with no selection, 0 errors,
\* 0 seconds, the board of the givens of the difficulty and its solution;
\* and no effect of an operation issued before the startGame alters them:
\* a callback that runs while the new session has no selection yet was
\* created before it, because every operation that creates one selects a
\* cell and only startGame clears the selection.
C8_StartGameResets ==
  [][/\ StartGame =>
          /\ status' = "playing"
          /\ selectedCell' = NullCell
          /\ errors' = 0
          /\ timer' = 0
          /\ board' = parseBoard(PUZZLES[difficulty])
          /\ solution' = generated[difficulty].solution
     /\ (/\ status = "playing"
         /\ selectedCell = NullCell
         /\ pending # <<>>
         /\ RunTimeout)
          => UNCHANGED <<status, board, solution, selectedCell, errors, timer>>]_vars

\* the selection after an arrow key: one step, stopped at the edges
Moved(pos, key) ==
  CASE key = "ArrowUp" -> IF pos.row = 0 THEN pos ELSE Pos(pos.row - 1, pos.col)
    [] key = "ArrowDown" -> IF pos.row = 8 THEN pos ELSE Pos(pos.row + 1, pos.col)
    [] key = "ArrowLeft" -> IF pos.col = 0 THEN pos ELSE Pos(pos.row, pos.col - 1)
    [] key = "ArrowRight" -> IF pos.col = 8 THEN pos ELSE Pos(pos.row, pos.col + 1)

\* C9: an arrow key takes effect only while playing with a selection, moves
\* the selection by one step in one direction and stops at the edges; the
\* selection, when there is one, is within 0..8, and an arrow key changes
\* neither the board nor the errors nor the status.
C9_NavigationClamps ==
  /\ [](selectedCell # NullCell =>
          selectedCell.row \in Idx /\ selectedCell.col \in Idx)
  /\ [][\A key \in ArrowKeys :
          ArrowKey(key) =>
            /\ UNCHANGED <<board, errors, status>>
            /\ selectedCell' =
                 IF status = "playing" /\ selectedCell # NullCell
                 THEN Moved(selectedCell, key)
                 ELSE selectedCell]_vars

\* the selection stands where only ArrowUp from the corner [8][8] puts it
C9_MovedUp == status = "playing" /\ selectedCell = Pos(7, 8)

\* C10: the status becomes playing only through startGame, solved only from
\* playing and only by a write that makes the board equal to the solution,
\* and menu only through the return to the menu or a failed startGame; no
\* step takes the status from menu to solved.
C10_StatusMachine ==
  [][status' # status =>
       CASE status' = "playing" -> StartGame
         [] status' = "solved" ->
              /\ status = "playing"
              /\ board' # board
              /\ checkWin(board', solution)
         [] status' = "menu" -> ReturnToMenu \/ StartGame]_vars

\* a step that enters a digit or erases, or runs the rest of such an entry
EntryStep ==
  \/ \E key \in InputKeys : InputKey(key)
  \/ \E digit \in Digits : PadClick(digit)
  \/ EraseClick
  \/ RunTimeout

\* C11: a digit or an erase has an effect only while playing: in menu and
\* in solved it changes neither the board nor the errors nor the status,
\* and once the status is solved the board and the errors stay as they are
\* until the next startGame.
C11_OnlyWhilePlaying ==
  [][/\ (status # "playing" /\ EntryStep) => UNCHANGED <<board, errors, status>>
     /\ (status = "solved" /\ ~StartGame) => UNCHANGED <<board, errors>>]_vars

C13_CountersMonotone ==
  [][/\ ~StartGame => (errors' >= errors /\ timer' >= timer)
     /\ (errors' < errors \/ timer' < timer) =>
          (StartGame /\ errors' = 0 /\ timer' = 0)]_vars

\* a session in which errors were counted and the timer ticked
C13_Counted == status = "playing" /\ errors = 2 /\ timer = 1

\* a step of the Erase button or of an erasing key
EraseStep == EraseClick \/ InputKey("Backspace") \/ InputKey("Delete")

\* C14: an erase on a selected cell that is not given, while playing, makes
\* the cell empty and not invalid and changes nothing else: the errors, the
\* selection, every other cell, the solution and the status are the same.
C14_EraseFrame ==
  [][(/\ status = "playing"
      /\ selectedCell # NullCell
      /\ ~board[selectedCell.row][selectedCell.col].isGiven
      /\ EraseStep) =>
       /\ board' = [board EXCEPT ![selectedCell.row][selectedCell.col] =
                                   [value |-> 0, isGiven |-> FALSE,
                                    isInvalid |-> FALSE]]
       /\ UNCHANGED <<errors, selectedCell, solution, status, difficulty,
                      timer>>]_vars

\* a session whose only wrong digit was erased: an error is counted and
\* the board holds the givens only
C14_Erased ==
  /\ status = "playing"
  /\ errors = 1
  /\ selectedCell # NullCell
  /\ board = generated[SessionDifficulty].puzzle

\* C15: when the solver fails for the requested difficulty, startGame
\* catches the error: the failure is logged, the status is menu, where the
\* handlers of the menu stay enabled, and the board, the solution, the
\* selection, the errors and the timer are the ones from before the call.
C15_FailureHandled ==
  [][(StartGame /\ generated[difficulty].threw) =>
       /\ status' = "menu"
       /\ logged' > logged
       /\ UNCHANGED <<board, solution, selectedCell, errors, timer>>]_vars

\* a failed startGame after a session: the board of the session is kept
C15_Failed ==
  /\ generated[difficulty].threw
  /\ logged > 0
  /\ status = "menu"
  /\ board # NullBoard

Empties(grid) == {pos \in {Pos(r, c) : r \in Idx, c \in Idx} :
                    grid[pos.row][pos.col] = 0}

\* the empty cells of grid can be filled so that every row, every column
\* and every box is {1..9}: the first empty cell in row-major order takes
\* a value that clashes with no other cell and the rest can be filled
RECURSIVE HasCompletion(_)
HasCompletion(grid) ==
  IF Empties(grid) = {} THEN ValidSolution(grid)
  ELSE LET first == CHOOSE pos \in Empties(grid) :
                      \A other \in Empties(grid) :
                        pos.row * 9 + pos.col <= other.row * 9 + other.col
       IN \E n \in 1 .. 9 :
            /\ ~Clashes(grid, first.row, first.col, n)
            /\ HasCompletion([grid EXCEPT ![first.row][first.col] = n])

\* the empty cells up to which HasCompletion is computed
MaxBlanks == 9

\* C17: on a partial valid assignment, when solve has returned true the
\* grid is complete, every row, column and box is {1..9}, and every cell
\* that was not empty in the input holds its input value; and solve
\* returns true exactly when the input has a completion.
C17_SolverContract ==
  (solver.pc = "done" /\ PartialValid(input)) =>
    /\ solver.ret =>
         /\ ValidSolution(solver.board)
         /\ \A r \in Idx, c \in Idx :
              input[r][c] # 0 => solver.board[r][c] = input[r][c]
    /\ Cardinality(Empties(input)) <= MaxBlanks =>
         (solver.ret <=> HasCompletion(input))

\* solve has returned false on an input without completion on which it
\* places and reverts two values before it returns
C17_Refused ==
  /\ solver.pc = "done"
  /\ ~solver.ret
  /\ input = Derived(parseGrid(Complete),
                     {Pos(0, 3), Pos(1, 6), Pos(2, 1), Pos(3, 6), Pos(3, 8),
                      Pos(4, 2), Pos(4, 8)}, 9)

\* the values of 1..9 that no cell of the row, the column or the box of
\* [r][c] holds
Candidates(grid, r, c) ==
  (1 .. 9) \ ({grid[r][i] : i \in Idx} \cup {grid[i][c] : i \in Idx}
              \cup {grid[3 * (r \div 3) + i][3 * (c \div 3) + j] :
                      i \in 0 .. 2, j \in 0 .. 2})

\* pos is an empty cell of grid with the fewest candidates, and the first
\* such cell in row-major order
IsMRV(grid, pos) ==
  /\ pos \in Empties(grid)
  /\ \A other \in Empties(grid) :
       LET np == Cardinality(Candidates(grid, pos.row, pos.col))
           no == Cardinality(Candidates(grid, other.row, other.col))
       IN \/ np < no
          \/ np = no /\ pos.row * 9 + pos.col <= other.row * 9 + other.col

\* C18: where a call of solve starts, findBestCell returns null exactly
\* when the grid has no empty cell, and otherwise the empty cell with the
\* fewest candidates, the first in row-major order on ties, a cell without
\* candidates included.  The call then runs n over 1, 2, ... on that cell:
\* a frame starts at n = 1 on the cell selected and n goes up by one; a
\* value is placed only at the head of the loop, it is n, on the cell of
\* the frame, and a candidate of it; on a cell without candidates nothing
\* is placed.
C18_MRVSelection ==
  /\ [](solver.pc = "call" =>
          LET cell == findBestCell(solver.board)
          IN IF Empties(solver.board) = {} THEN cell.bestRow = -1
             ELSE /\ cell.bestRow # -1
                  /\ IsMRV(solver.board, Pos(cell.bestRow, cell.bestCol)))
  /\ [][LET depth == Len(solver.stack)
            f == solver.stack[depth]
            g == solver'.stack[Len(solver'.stack)]
        IN /\ Len(solver'.stack) = depth + 1 =>
                /\ g.n = 1
                /\ IsMRV(solver.board, Pos(g.r, g.c))
           /\ (Len(solver'.stack) = depth /\ solver'.stack # solver.stack) =>
                (g.n = f.n + 1 /\ g.r = f.r /\ g.c = f.c)
           /\ (solver'.board # solver.board /\ solver.pc = "loop") =>
                /\ f.n \in Candidates(solver.board, f.r, f.c)
                /\ solver'.board = [solver.board EXCEPT ![f.r][f.c] = f.n]
           /\ (solver.pc = "loop" /\ Candidates(solver.board, f.r, f.c) = {}) =>
                solver'.board = solver.board]_vars

\* a call of solve is at the head of its loop on a cell without
\* candidates that was selected while other cells were empty
C18_DeadCellSelected ==
  /\ solver.pc = "loop"
  /\ Len(solver.stack) >= 2
  /\ Cardinality(Empties(solver.board)) >= 2
  /\ LET f == solver.stack[Len(solver.stack)]
     IN /\ f.n = 1
        /\ Candidates(solver.board, f.r, f.c) = {}

\* the grid of the solver is the input with the values of the first k
\* frames of the stack placed on their cells
Placed(k) ==
  /\ \A i \in 1 .. k :
       solver.board[solver.stack[i].r][solver.stack[i].c] = solver.stack[i].n
  /\ \A r \in Idx, c \in Idx :
       solver.board[r][c] # input[r][c] =>
         \E i \in 1 .. k : solver.stack[i].r = r /\ solver.stack[i].c = c

\* C20: solve terminates, and a call that returns false leaves the grid
\* as it received it.  The grid a call receives is the input with the
\* placements of the calls that are active (one frame each); that is the
\* grid where a call starts, where a call has just returned false (to its
\* caller or, at the top level, to line 90), and, less the placement of
\* the innermost call, at the head of every loop: each tentative
\* placement of a failed search has been reverted to 0.
C20_TerminatesAndRestores ==
  /\ <>(solver.pc = "done")
  /\ [](solver.pc = "call" => Placed(Len(solver.stack)))
  /\ []((solver.pc \in {"return", "done"} /\ ~solver.ret) =>
          Placed(Len(solver.stack)))
  /\ [](solver.pc = "loop" => Placed(Len(solver.stack) - 1))

\* a call two levels below the top level has returned false
C20_NestedFailure ==
  /\ solver.pc = "return"
  /\ ~solver.ret
  /\ Len(solver.stack) >= 2

\* C19: while a board exists, the cells marked invalid are at most as
\* many as the errors counted.
C19_ErrorsBoundInvalid ==
  board # NullBoard =>
    Cardinality({pos \in {Pos(r, c) : r \in Idx, c \in Idx} :
                   board[pos.row][pos.col].isInvalid}) <= errors

====
